---- MODULE Spec2Model ----
(***************************************************************************)
(* Turn and combat state machine of the zombicide repository:              *)
(*   core/actions.py     Position, Direction, Action, ActionValidator      *)
(*   core/entities.py    Entity, Survivor, Zombie, GameState               *)
(*   core/turn_order.py  TurnOrderManager                                  *)
(*   core/turn_manager.py TurnManager                                      *)
(*   systems/game_loop.py GameStateSystem.update, GameActionProcessor      *)
(*                                                                         *)
(* Objects are records; a method is an operator from the world before the  *)
(* call to the world after it (plus the returned value where there is one).*)
(* A world is [gs, tm, tom, crashed]: the GameState, the TurnManager, its   *)
(* TurnOrderManager and whether an exception has escaped a call.            *)
(* Two more variables only observe: last is the latest call and its result, *)
(* zhist counts what the zombies did since the zombie phase was entered.    *)
(* Display-only fields (messages, phase_timer, survivors_acted, names) are  *)
(* not modelled: no code path reads them to take a decision.                *)
(***************************************************************************)
EXTENDS Integers, Sequences, FiniteSets, TLC

\* ---------------------------------------------------------------- constants
GridSize == 3
DefaultGridSize == 3
SurvivorMaxActions == 3
ZombieMaxActions == 1
DeathWounds == 2
ZombieCount == 2
SurvivorStartPos == <<0, 2>>
ZombieStartPos == <<2, 2>>

\* ------------------------------------------------------------------- bounds
NumSurvivors == 2
MaxTurn == 2
MaxRounds == 4
MaxCursor == 3
MaxRoster == 3
MaxOrderTurn == 4
MaxPlayTurn == 3
MaxCoord == 3
MaxGridInput == 4

VARIABLES gs, tm, tom, crashed, last, zhist

vars == <<gs, tm, tom, crashed, last, zhist>>

\* ------------------------------------------------------- core/actions.py
Directions == <<"UP", "DOWN", "LEFT", "RIGHT">>

DirectionSet == {Directions[i] : i \in 1..Len(Directions)}

get_offset(d) ==
    CASE d = "UP" -> <<-1, 0>>
      [] d = "DOWN" -> <<1, 0>>
      [] d = "LEFT" -> <<0, -1>>
      [] d = "RIGHT" -> <<0, 1>>

PosAdd(p, d) == <<p[1] + get_offset(d)[1], p[2] + get_offset(d)[2]>>

is_valid(p, grid_size) ==
    /\ 0 <= p[1] /\ p[1] < grid_size
    /\ 0 <= p[2] /\ p[2] < grid_size

Abs(x) == IF x < 0 THEN -x ELSE x

distance_to(p, q) == Abs(p[1] - q[1]) + Abs(p[2] - q[2])

\* a validate_move that also accepts the line just past the grid
validate_move_inclusive(actor_pos, direction, grid_size) ==
    LET q == PosAdd(actor_pos, direction)
    IN /\ 0 <= q[1] /\ q[1] <= grid_size
       /\ 0 <= q[2] /\ q[2] <= grid_size

validate_move(actor_pos, direction, grid_size) ==
    is_valid(PosAdd(actor_pos, direction), grid_size)

validate_attack(actor_pos, target_pos) == actor_pos = target_pos

NoId == <<"none", 0>>
NoPos == <<-9, -9>>
NoAction ==
    [action_type |-> "NONE", actor_id |-> NoId, target_position |-> NoPos,
     target_id |-> NoId, direction |-> "NONE"]

MoveAction(actor, target_position, direction) ==
    [action_type |-> "MOVE", actor_id |-> actor, target_position |-> target_position,
     target_id |-> NoId, direction |-> direction]

AttackAction(actor, target_position, target) ==
    [action_type |-> "ATTACK", actor_id |-> actor, target_position |-> target_position,
     target_id |-> target, direction |-> "NONE"]

\* ------------------------------------------------------ core/entities.py
NewSurvivor(pos) ==
    [position |-> pos, alive |-> TRUE, actions_remaining |-> 0,
     max_actions |-> SurvivorMaxActions, wounds |-> 0]

NewZombie(pos) ==
    [position |-> pos, alive |-> TRUE, actions_remaining |-> 0,
     max_actions |-> ZombieMaxActions]

can_act(e) == e.alive /\ e.actions_remaining > 0

\* a start_turn that grants one action too many
start_turn_extra(e) == [e EXCEPT !.actions_remaining = e.max_actions + 1]

start_turn(e) == [e EXCEPT !.actions_remaining = e.max_actions]

\* a consume_action that spends every action point
consume_action_all(e) == [e EXCEPT !.actions_remaining = 0]

consume_action(e) ==
    IF e.actions_remaining > 0
    THEN [e EXCEPT !.actions_remaining = @ - 1]
    ELSE e

\* a take_damage whose survivor dies one wound later
take_damage_late(s) ==
    LET w == s.wounds + 1
    IN [s EXCEPT !.wounds = w, !.alive = IF w > DeathWounds THEN FALSE ELSE @]

take_damage(s) ==
    LET w == s.wounds + 1
    IN [s EXCEPT !.wounds = w, !.alive = IF w >= DeathWounds THEN FALSE ELSE @]

SurvivorId(i) == <<"survivor", i>>
ZombieId(j) == <<"zombie", j>>

\* get_entity_by_id: the id of the entity found, or NoId
get_entity_by_id(g, id) ==
    IF id[1] = "survivor" /\ id[2] \in 1..Len(g.survivors) THEN id
    ELSE IF id[1] = "zombie" /\ id[2] \in 1..Len(g.zombies) THEN id
    ELSE NoId

Entity(g, id) == IF id[1] = "survivor" THEN g.survivors[id[2]] ELSE g.zombies[id[2]]

SetEntity(g, id, e) ==
    IF id[1] = "survivor"
    THEN [g EXCEPT !.survivors[id[2]] = e]
    ELSE [g EXCEPT !.zombies[id[2]] = e]

\* an _execute_move that spends the action point before it validates the move
_execute_move_consume_first(g, actor, action) ==
    IF ~validate_move(Entity(g, actor).position, action.direction, GridSize)
    THEN [gs |-> SetEntity(g, actor, consume_action(Entity(g, actor))), success |-> FALSE]
    ELSE [gs |-> SetEntity(g, actor,
                    consume_action([Entity(g, actor) EXCEPT
                                        !.position = action.target_position])),
          success |-> TRUE]

_execute_move(g, actor, action) ==
    IF ~validate_move(Entity(g, actor).position, action.direction, GridSize)
    THEN [gs |-> g, success |-> FALSE]
    ELSE [gs |-> SetEntity(g, actor,
                    consume_action([Entity(g, actor) EXCEPT
                                        !.position = action.target_position])),
          success |-> TRUE]

\* an _execute_attack that leaves a zombie target alive
_execute_attack_wound_only(g, actor, action) ==
    LET target == get_entity_by_id(g, action.target_id)
    IN IF target = NoId THEN [gs |-> g, success |-> FALSE]
       ELSE IF ~validate_attack(Entity(g, actor).position, Entity(g, target).position)
       THEN [gs |-> g, success |-> FALSE]
       ELSE LET g1 == SetEntity(g, actor, consume_action(Entity(g, actor)))
                g2 == IF target[1] = "survivor"
                      THEN SetEntity(g1, target, take_damage(Entity(g1, target)))
                      ELSE g1
            IN [gs |-> g2, success |-> TRUE]

_execute_attack(g, actor, action) ==
    LET target == get_entity_by_id(g, action.target_id)
    IN IF target = NoId THEN [gs |-> g, success |-> FALSE]
       ELSE IF ~validate_attack(Entity(g, actor).position, Entity(g, target).position)
       THEN [gs |-> g, success |-> FALSE]
       ELSE LET g1 == SetEntity(g, actor, consume_action(Entity(g, actor)))
                g2 == IF target[1] = "survivor"
                      THEN SetEntity(g1, target, take_damage(Entity(g1, target)))
                      ELSE SetEntity(g1, target, [Entity(g1, target) EXCEPT !.alive = FALSE])
            IN [gs |-> g2, success |-> TRUE]

execute_action(g, action) ==
    LET actor == get_entity_by_id(g, action.actor_id)
    IN IF actor = NoId \/ ~can_act(Entity(g, actor))
       THEN [gs |-> g, success |-> FALSE]
       ELSE IF action.action_type = "MOVE" THEN _execute_move(g, actor, action)
       ELSE IF action.action_type = "ATTACK" THEN _execute_attack(g, actor, action)
       ELSE [gs |-> g, success |-> FALSE]

start_entity_turns(g, kind) ==
    IF kind = "survivor"
    THEN [g EXCEPT !.survivors =
            [i \in 1..Len(g.survivors) |->
                IF g.survivors[i].alive THEN start_turn(g.survivors[i]) ELSE g.survivors[i]]]
    ELSE [g EXCEPT !.zombies =
            [j \in 1..Len(g.zombies) |->
                IF g.zombies[j].alive THEN start_turn(g.zombies[j]) ELSE g.zombies[j]]]

\* living survivors in the zone of position p, in list order
\* ([s for s in game_state.survivors if s.position == p and s.alive])
RECURSIVE SurvivorsInZoneFrom(_, _, _)
SurvivorsInZoneFrom(g, p, i) ==
    IF i > Len(g.survivors) THEN <<>>
    ELSE (IF g.survivors[i].position = p /\ g.survivors[i].alive THEN <<i>> ELSE <<>>)
         \o SurvivorsInZoneFrom(g, p, i + 1)

survivors_in_zone(g, p) == SurvivorsInZoneFrom(g, p, 1)

\* living zombies in the zone of position p, in list order
RECURSIVE ZombiesInZoneFrom(_, _, _)
ZombiesInZoneFrom(g, p, j) ==
    IF j > Len(g.zombies) THEN <<>>
    ELSE (IF g.zombies[j].alive /\ g.zombies[j].position = p THEN <<j>> ELSE <<>>)
         \o ZombiesInZoneFrom(g, p, j + 1)

zombies_in_zone(g, p) == ZombiesInZoneFrom(g, p, 1)

\* the loop of Zombie.decide_action that picks the closest living survivor:
\* the first one, in list order, at the minimal distance (0 when there is none)
RECURSIVE ClosestLoop(_, _, _, _, _)
ClosestLoop(g, p, i, best, min_distance) ==
    IF i > Len(g.survivors) THEN best
    ELSE IF g.survivors[i].alive
            /\ (best = 0 \/ distance_to(p, g.survivors[i].position) < min_distance)
         THEN ClosestLoop(g, p, i + 1, i, distance_to(p, g.survivors[i].position))
         ELSE ClosestLoop(g, p, i + 1, best, min_distance)

\* the loop over Direction that keeps the strictly best destination
\* a direction loop that keeps the last improving direction instead of the first
RECURSIVE BestDirLoop_last(_, _, _, _, _)
BestDirLoop_last(p, target, k, best_direction, best_distance) ==
    IF k > Len(Directions) THEN best_direction
    ELSE LET d == Directions[k]
             np == PosAdd(p, d)
         IN IF validate_move(p, d, DefaultGridSize) /\ distance_to(np, target) <= best_distance
               /\ distance_to(np, target) < distance_to(p, target)
            THEN BestDirLoop_last(p, target, k + 1, d, distance_to(np, target))
            ELSE BestDirLoop_last(p, target, k + 1, best_direction, best_distance)

RECURSIVE BestDirLoop(_, _, _, _, _)
BestDirLoop(p, target, k, best_direction, best_distance) ==
    IF k > Len(Directions) THEN best_direction
    ELSE LET d == Directions[k]
             np == PosAdd(p, d)
         IN IF validate_move(p, d, DefaultGridSize) /\ distance_to(np, target) < best_distance
            THEN BestDirLoop(p, target, k + 1, d, distance_to(np, target))
            ELSE BestDirLoop(p, target, k + 1, best_direction, best_distance)

Zombie_decide_action(g, j) ==
    LET z == g.zombies[j]
        inzone == survivors_in_zone(g, z.position)
        closest == ClosestLoop(g, z.position, 1, 0, 0)
    IN IF ~can_act(z) THEN NoAction
       ELSE IF inzone # <<>>
       THEN AttackAction(ZombieId(j), g.survivors[inzone[1]].position, SurvivorId(inzone[1]))
       ELSE IF closest = 0 THEN NoAction
       ELSE LET cpos == g.survivors[closest].position
                bd == BestDirLoop(z.position, cpos, 1, "NONE", distance_to(z.position, cpos))
            IN IF bd = "NONE" THEN NoAction
               ELSE MoveAction(ZombieId(j), PosAdd(z.position, bd), bd)

\* GameSetup.initialize_game_state with its default positions and zombie count
InitialGameState ==
    [survivors |-> [i \in 1..NumSurvivors |-> NewSurvivor(SurvivorStartPos)],
     zombies |-> [j \in 1..ZombieCount |-> NewZombie(ZombieStartPos)]]

\* ---------------------------------------------------- core/turn_order.py
Min(a, b) == IF a < b THEN a ELSE b

\* survivors[k:] + survivors[:k]
Rotate(s, k) == SubSeq(s, Min(k, Len(s)) + 1, Len(s)) \o SubSeq(s, 1, Min(k, Len(s)))

\* [s for s in order if s.alive]
RECURSIVE AliveOnly(_, _)
AliveOnly(order, g) ==
    IF order = <<>> THEN <<>>
    ELSE (IF g.survivors[Head(order)].alive THEN <<Head(order)>> ELSE <<>>)
         \o AliveOnly(Tail(order), g)

_update_turn_order(t, g) ==
    IF t.survivors = <<>>
    THEN [t EXCEPT !.current_turn_order = <<>>]
    ELSE [t EXCEPT !.current_turn_order = AliveOnly(Rotate(t.survivors, t.first_player_index), g),
                   !.current_survivor_index = 0]

\* TurnOrderManager.__init__ on the roster game_state.survivors
TurnOrderManager(g) ==
    _update_turn_order(
        [survivors |-> [i \in 1..Len(g.survivors) |-> i],
         first_player_index |-> 0,
         current_turn_order |-> <<>>,
         current_survivor_index |-> 0,
         turn_number |-> 1], g)

\* before initialize_turn_order: TurnManager.turn_order_manager is None
NoTurnOrderManager ==
    [survivors |-> <<>>, first_player_index |-> 0, current_turn_order |-> <<>>,
     current_survivor_index |-> 0, turn_number |-> 1]

\* the survivor at the cursor, 0 for None
get_current_survivor(t) ==
    IF t.current_turn_order = <<>> \/ t.current_survivor_index >= Len(t.current_turn_order)
    THEN 0
    ELSE t.current_turn_order[t.current_survivor_index + 1]

\* the manager after get_next_survivor(); its result is get_current_survivor of it
get_next_survivor(t) == [t EXCEPT !.current_survivor_index = @ + 1]

\* an advance_turn that lets first_player_index run past the roster
advance_turn_unwrapped(t, g) ==
    _update_turn_order(
        [t EXCEPT !.first_player_index = @ + 1,
                  !.turn_number = @ + 1], g)

advance_turn(t, g) ==
    _update_turn_order(
        [t EXCEPT !.first_player_index = (@ + 1) % Len(t.survivors),
                  !.turn_number = @ + 1], g)

\* the 0-based place of survivor s in the roster, Len(roster) when it is not there
RECURSIVE RosterIndex(_, _)
RosterIndex(roster, s) ==
    IF roster = <<>> \/ Head(roster) = s THEN 0 ELSE 1 + RosterIndex(Tail(roster), s)

\* a remove_dead_survivor that leaves first_player_index as it is
remove_dead_survivor_unadjusted(t, g, s) ==
    LET dead_index == RosterIndex(t.survivors, s)
        t1 == IF dead_index < Len(t.survivors)
              THEN [t EXCEPT !.survivors = SubSeq(t.survivors, 1, dead_index)
                                \o SubSeq(t.survivors, dead_index + 2, Len(t.survivors))]
              ELSE t
        t2 == _update_turn_order(t1, g)
    IN IF t2.current_survivor_index >= Len(t2.current_turn_order)
       THEN [t2 EXCEPT !.current_survivor_index = Len(t2.current_turn_order)]
       ELSE t2

remove_dead_survivor(t, g, s) ==
    LET dead_index == RosterIndex(t.survivors, s)
        t1 == IF dead_index < Len(t.survivors)
              THEN LET rest == SubSeq(t.survivors, 1, dead_index)
                                \o SubSeq(t.survivors, dead_index + 2, Len(t.survivors))
                   IN [t EXCEPT !.survivors = rest,
                                !.first_player_index =
                                    IF dead_index < @ THEN @ - 1
                                    ELSE IF dead_index = @ /\ @ >= Len(rest) THEN 0
                                    ELSE @]
              ELSE t
        t2 == _update_turn_order(t1, g)
    IN IF t2.current_survivor_index >= Len(t2.current_turn_order)
       THEN [t2 EXCEPT !.current_survivor_index = Len(t2.current_turn_order)]
       ELSE t2

\* -------------------------------------------------- core/turn_manager.py
Phases == <<"SURVIVOR_TURN", "ZOMBIE_TURN", "ZOMBIE_SPAWN", "TURN_END">>

\* TurnManager.__init__; the attributes created later by the phase methods
\* (_current_game_state, _survivor_turn_initialized, _zombie_turn_initialized,
\* _zombie_index) start absent
NewTurnManager ==
    [current_phase |-> "SURVIVOR_TURN",
     turn_number |-> 1,
     current_survivor_index |-> 0,
     phase_complete |-> FALSE,
     game_paused |-> FALSE,
     current_survivor |-> 0,
     waiting_for_action |-> FALSE,
     available_actions |-> <<>>,
     waiting_for_survivor_selection |-> FALSE,
     attacking_zombie |-> 0,
     available_target_survivors |-> <<>>,
     waiting_for_phase_advance |-> FALSE,
     turn_order_manager |-> FALSE,
     current_game_state |-> FALSE,
     survivor_turn_initialized |-> "absent",
     zombie_turn_initialized |-> "absent",
     zombie_index |-> -1]

mark_phase_complete(w) == [w EXCEPT !.tm.phase_complete = TRUE]

\* for survivor in game_state.survivors: if survivor.alive: actions_remaining = max_actions
ResetSurvivorActions(g) ==
    [g EXCEPT !.survivors =
        [i \in 1..Len(g.survivors) |->
            IF g.survivors[i].alive
            THEN [g.survivors[i] EXCEPT !.actions_remaining = g.survivors[i].max_actions]
            ELSE g.survivors[i]]]

\* an end_turn that leaves the survivors' action points as they are
end_turn_no_reset(w) ==
    LET w1 == IF w.tm.turn_order_manager
              THEN LET t == advance_turn(w.tom, w.gs)
                   IN [w EXCEPT !.tom = t, !.tm.turn_number = t.turn_number]
              ELSE [w EXCEPT !.tm.turn_number = @ + 1]
        w2 == [w1 EXCEPT !.tm.current_phase = "SURVIVOR_TURN",
                         !.tm.current_survivor_index = 0,
                         !.tm.phase_complete = FALSE]
    IN [w2 EXCEPT
          !.tm.survivor_turn_initialized = IF @ = "absent" THEN @ ELSE "false",
          !.tm.zombie_turn_initialized = IF @ = "absent" THEN @ ELSE "false",
          !.tm.zombie_index = IF @ = -1 THEN @ ELSE 0]

end_turn(w) ==
    LET w1 == IF w.tm.turn_order_manager
              THEN LET t == advance_turn(w.tom, w.gs)
                   IN [w EXCEPT !.tom = t, !.tm.turn_number = t.turn_number]
              ELSE [w EXCEPT !.tm.turn_number = @ + 1]
        w2 == [w1 EXCEPT !.tm.current_phase = "SURVIVOR_TURN",
                         !.tm.current_survivor_index = 0,
                         !.tm.phase_complete = FALSE]
        w3 == IF w2.tm.current_game_state
              THEN [w2 EXCEPT !.gs = ResetSurvivorActions(w2.gs)]
              ELSE w2
    IN [w3 EXCEPT
          !.tm.survivor_turn_initialized = IF @ = "absent" THEN @ ELSE "false",
          !.tm.zombie_turn_initialized = IF @ = "absent" THEN @ ELSE "false",
          !.tm.zombie_index = IF @ = -1 THEN @ ELSE 0]

\* an advance_phase that does not test game_paused
advance_phase_unpaused(w) ==
    LET w1 == [w EXCEPT !.tm.phase_complete = FALSE]
    IN CASE w1.tm.current_phase = "SURVIVOR_TURN" ->
               [w1 EXCEPT !.tm.current_phase = "ZOMBIE_TURN"]
         [] w1.tm.current_phase = "ZOMBIE_TURN" ->
               [w1 EXCEPT !.tm.current_phase = "ZOMBIE_SPAWN"]
         [] w1.tm.current_phase = "ZOMBIE_SPAWN" ->
               [w1 EXCEPT !.tm.current_phase = "TURN_END"]
         [] w1.tm.current_phase = "TURN_END" -> end_turn(w1)

advance_phase(w) ==
    IF w.tm.game_paused THEN w
    ELSE LET w1 == [w EXCEPT !.tm.phase_complete = FALSE]
         IN CASE w1.tm.current_phase = "SURVIVOR_TURN" ->
                    [w1 EXCEPT !.tm.current_phase = "ZOMBIE_TURN"]
              [] w1.tm.current_phase = "ZOMBIE_TURN" ->
                    [w1 EXCEPT !.tm.current_phase = "ZOMBIE_SPAWN"]
              [] w1.tm.current_phase = "ZOMBIE_SPAWN" ->
                    [w1 EXCEPT !.tm.current_phase = "TURN_END"]
              [] w1.tm.current_phase = "TURN_END" -> end_turn(w1)

_get_available_actions(g, s) ==
    <<"Use cursor keys to move">>
    \o (IF zombies_in_zone(g, g.survivors[s].position) # <<>>
        THEN <<"Press 'a' to attack">> ELSE <<>>)
    \o <<"Press 'space' to skip turn">>

\* while active_survivor and not active_survivor.can_act(): get_next_survivor()
RECURSIVE SkipToActable(_, _)
SkipToActable(t, g) ==
    IF get_current_survivor(t) # 0 /\ ~can_act(g.survivors[get_current_survivor(t)])
    THEN SkipToActable(get_next_survivor(t), g)
    ELSE t

\* the fallback loop over game_state.survivors by TurnManager.current_survivor_index
RECURSIVE FallbackSkip(_, _)
FallbackSkip(idx, g) ==
    IF idx < Len(g.survivors) /\ ~(g.survivors[idx + 1].alive /\ can_act(g.survivors[idx + 1]))
    THEN FallbackSkip(idx + 1, g)
    ELSE idx

_find_next_survivor(w) ==
    IF ~w.tm.current_game_state THEN w
    ELSE IF w.tm.turn_order_manager
    THEN LET t == SkipToActable(w.tom, w.gs)
             active == get_current_survivor(t)
         IN IF active # 0
            THEN [w EXCEPT !.tom = t,
                           !.tm.current_survivor = active,
                           !.tm.available_actions = _get_available_actions(w.gs, active),
                           !.tm.waiting_for_action = TRUE]
            ELSE [w EXCEPT !.tom = t,
                           !.tm.survivor_turn_initialized = "false",
                           !.tm.waiting_for_action = FALSE,
                           !.tm.waiting_for_phase_advance = TRUE]
    ELSE LET idx == FallbackSkip(w.tm.current_survivor_index, w.gs)
         IN IF idx < Len(w.gs.survivors)
            THEN [w EXCEPT !.tm.current_survivor_index = idx,
                           !.tm.current_survivor = idx + 1,
                           !.tm.available_actions = _get_available_actions(w.gs, idx + 1),
                           !.tm.waiting_for_action = TRUE]
            ELSE mark_phase_complete(
                    [w EXCEPT !.tm.current_survivor_index = idx,
                              !.tm.survivor_turn_initialized = "false"])

\* turn_order_manager.get_next_survivor() or, without a manager, current_survivor_index += 1
NextSurvivorCursor(w) ==
    IF w.tm.turn_order_manager
    THEN [w EXCEPT !.tom = get_next_survivor(w.tom)]
    ELSE [w EXCEPT !.tm.current_survivor_index = @ + 1]

process_survivor_turn(w) ==
    IF Len(w.gs.survivors) = 0 THEN mark_phase_complete(w)
    ELSE LET w1 == [w EXCEPT !.tm.current_game_state = TRUE]
             w2 == IF w1.tm.survivor_turn_initialized = "absent"
                   THEN LET w21 == [w1 EXCEPT !.gs = start_entity_turns(w1.gs, "survivor"),
                                              !.tm.survivor_turn_initialized = "true"]
                            w22 == IF ~w21.tm.turn_order_manager
                                   THEN [w21 EXCEPT !.tom = TurnOrderManager(w21.gs),
                                                    !.tm.turn_order_manager = TRUE]
                                   ELSE w21
                        IN [w22 EXCEPT !.tm.current_survivor_index = 0]
                   ELSE w1
         IN IF ~w2.tm.waiting_for_action THEN _find_next_survivor(w2) ELSE w2

\* an _inflict_wound that wounds twice
_inflict_wound_twice(g, s) == [g EXCEPT !.survivors[s] = take_damage(take_damage(@))]

_inflict_wound(g, s) == [g EXCEPT !.survivors[s] = take_damage(@)]

\* lines 546-549: the zombie phase (re)initialises when the flag is absent or False
ZombieTurnNeedsInit(w) == w.tm.zombie_turn_initialized # "true"

InitZombieTurn(w) ==
    IF ZombieTurnNeedsInit(w)
    THEN [w EXCEPT !.gs = start_entity_turns(w.gs, "zombie"),
                   !.tm.zombie_turn_initialized = "true",
                   !.tm.zombie_index = 0]
    ELSE w

\* lines 603-608: "All zombies processed"
ZombieTurnFinish(w) ==
    IF w.tm.zombie_index >= Len(w.gs.zombies) /\ ~w.tm.phase_complete
    THEN mark_phase_complete([w EXCEPT !.tm.zombie_turn_initialized = "false"])
    ELSE w

\* lines 558-601: the zombie at the cursor; returned says the method returned early
ZombieStep(w) ==
    IF w.tm.zombie_index < Len(w.gs.zombies)
    THEN LET j == w.tm.zombie_index + 1
             zombie == w.gs.zombies[j]
             inzone == survivors_in_zone(w.gs, zombie.position)
         IN IF zombie.alive /\ can_act(zombie)
            THEN IF zombie.actions_remaining = 0
                 THEN [w |-> [w EXCEPT !.tm.zombie_index = @ + 1], returned |-> TRUE]
                 ELSE IF inzone # <<>>
                 THEN IF Len(inzone) = 1
                      THEN [w |-> [w EXCEPT
                                     !.gs = [_inflict_wound(w.gs, inzone[1]) EXCEPT
                                                !.zombies[j].actions_remaining = @ - 1],
                                     !.tm.zombie_index = @ + 1],
                            returned |-> FALSE]
                      ELSE [w |-> [w EXCEPT !.tm.attacking_zombie = j,
                                            !.tm.available_target_survivors = inzone,
                                            !.tm.waiting_for_survivor_selection = TRUE],
                            returned |-> TRUE]
                 ELSE LET action == Zombie_decide_action(w.gs, j)
                      IN [w |-> [w EXCEPT
                                   !.gs = IF action # NoAction
                                          THEN execute_action(w.gs, action).gs
                                          ELSE [w.gs EXCEPT !.zombies[j].actions_remaining = @ - 1],
                                   !.tm.zombie_index = @ + 1],
                          returned |-> FALSE]
            ELSE [w |-> [w EXCEPT !.tm.zombie_index = @ + 1], returned |-> FALSE]
    ELSE [w |-> w, returned |-> FALSE]

\* a process_zombie_turn that handles two zombies in one tick
process_zombie_turn_twice(w) ==
    IF Len(w.gs.zombies) = 0 THEN mark_phase_complete(w)
    ELSE LET w1 == InitZombieTurn([w EXCEPT !.tm.current_game_state = TRUE])
         IN IF w1.tm.waiting_for_survivor_selection THEN w1
            ELSE LET r == ZombieStep(w1)
                 IN IF r.returned THEN r.w
                    ELSE LET r2 == ZombieStep(r.w)
                         IN IF r2.returned THEN r2.w ELSE ZombieTurnFinish(r2.w)

process_zombie_turn(w) ==
    IF Len(w.gs.zombies) = 0 THEN mark_phase_complete(w)
    ELSE LET w1 == InitZombieTurn([w EXCEPT !.tm.current_game_state = TRUE])
         IN IF w1.tm.waiting_for_survivor_selection THEN w1
            ELSE LET r == ZombieStep(w1)
                 IN IF r.returned THEN r.w ELSE ZombieTurnFinish(r.w)

\* GameState has no spawn_zombie method: the call at line 624 raises AttributeError
process_zombie_spawn(w) ==
    IF ~w.tm.phase_complete
    THEN IF w.tm.current_game_state
         THEN [w EXCEPT !.crashed = TRUE]
         ELSE mark_phase_complete(w)
    ELSE w

\* a process_turn_end that starts the next round by itself
process_turn_end_advancing(w) ==
    IF ~w.tm.phase_complete THEN end_turn(mark_phase_complete(w)) ELSE w

process_turn_end(w) ==
    IF ~w.tm.phase_complete THEN mark_phase_complete(w) ELSE w

\* if not self.current_survivor.can_act(): move the cursor on and _find_next_survivor()
AfterSurvivorAction(w) ==
    IF ~can_act(w.gs.survivors[w.tm.current_survivor])
    THEN _find_next_survivor(NextSurvivorCursor(w))
    ELSE w

execute_move(w, direction) ==
    IF w.tm.current_survivor = 0 \/ ~w.tm.current_game_state
    THEN [w |-> w, ret |-> FALSE]
    ELSE LET cs == w.tm.current_survivor
             pos == w.gs.survivors[cs].position
         IN IF ~validate_move(pos, direction, DefaultGridSize)
            THEN [w |-> w, ret |-> FALSE]
            ELSE LET r == execute_action(w.gs,
                              MoveAction(SurvivorId(cs), PosAdd(pos, direction), direction))
                     w1 == [w EXCEPT !.gs = r.gs]
                 IN IF r.success
                    THEN [w |-> AfterSurvivorAction(w1), ret |-> TRUE]
                    ELSE [w |-> w1, ret |-> FALSE]

execute_attack(w) ==
    IF w.tm.current_survivor = 0 \/ ~w.tm.current_game_state
    THEN [w |-> w, ret |-> FALSE]
    ELSE LET cs == w.tm.current_survivor
             found == zombies_in_zone(w.gs, w.gs.survivors[cs].position)
         IN IF found = <<>>
            THEN [w |-> w, ret |-> FALSE]
            ELSE LET zombie == found[1]
                     r == execute_action(w.gs,
                              AttackAction(SurvivorId(cs), w.gs.zombies[zombie].position,
                                           ZombieId(zombie)))
                     w1 == [w EXCEPT !.gs = r.gs]
                 IN IF r.success
                    THEN [w |-> AfterSurvivorAction(w1), ret |-> TRUE]
                    ELSE [w |-> w1, ret |-> FALSE]

execute_skip_turn(w) ==
    IF w.tm.current_survivor = 0
    THEN [w |-> w, ret |-> FALSE]
    ELSE [w |-> _find_next_survivor(NextSurvivorCursor(
                    [w EXCEPT !.gs.survivors[w.tm.current_survivor].actions_remaining = 0])),
          ret |-> TRUE]

\* list[i] of Python: 0 when i is out of range (IndexError), else the 1-based place
PyIndex(len, i) ==
    IF i >= 0 THEN (IF i < len THEN i + 1 ELSE 0)
    ELSE (IF i + len >= 0 THEN i + len + 1 ELSE 0)

\* a select_survivor_target that always wounds the first candidate
select_survivor_target_first(w, target_index) ==
    IF ~w.tm.waiting_for_survivor_selection
       \/ target_index >= Len(w.tm.available_target_survivors)
    THEN [w |-> w, ret |-> FALSE]
    ELSE LET target_survivor == w.tm.available_target_survivors[1]
             z == w.tm.attacking_zombie
             g1 == _inflict_wound(w.gs, target_survivor)
             g2 == [g1 EXCEPT !.zombies[z] = consume_action(@)]
         IN [w |-> [w EXCEPT !.gs = g2,
                             !.tm.zombie_index = @ + 1,
                             !.tm.waiting_for_survivor_selection = FALSE,
                             !.tm.attacking_zombie = 0,
                             !.tm.available_target_survivors = <<>>],
             ret |-> TRUE]

\* a select_survivor_target that does not test waiting_for_survivor_selection
select_survivor_target_unguarded(w, target_index) ==
    IF target_index >= Len(w.tm.available_target_survivors)
    THEN [w |-> w, ret |-> FALSE]
    ELSE LET k == PyIndex(Len(w.tm.available_target_survivors), target_index)
         IN IF k = 0
            THEN [w |-> [w EXCEPT !.crashed = TRUE], ret |-> FALSE]
            ELSE [w |-> [w EXCEPT !.gs = _inflict_wound(w.gs, w.tm.available_target_survivors[k]),
                                  !.tm.waiting_for_survivor_selection = FALSE],
                  ret |-> TRUE]

\* a select_survivor_target that keeps waiting for a selection after it was answered
select_survivor_target_still_waiting(w, target_index) ==
    IF ~w.tm.waiting_for_survivor_selection
       \/ target_index >= Len(w.tm.available_target_survivors)
    THEN [w |-> w, ret |-> FALSE]
    ELSE LET k == PyIndex(Len(w.tm.available_target_survivors), target_index)
         IN IF k = 0
            THEN [w |-> [w EXCEPT !.crashed = TRUE], ret |-> FALSE]
            ELSE LET target_survivor == w.tm.available_target_survivors[k]
                     z == w.tm.attacking_zombie
                     g1 == _inflict_wound(w.gs, target_survivor)
                     g2 == [g1 EXCEPT !.zombies[z] = consume_action(@)]
                 IN [w |-> [w EXCEPT !.gs = g2,
                                     !.tm.zombie_index = @ + 1,
                                     !.tm.available_target_survivors = <<>>],
                     ret |-> TRUE]

select_survivor_target(w, target_index) ==
    IF ~w.tm.waiting_for_survivor_selection
       \/ target_index >= Len(w.tm.available_target_survivors)
    THEN [w |-> w, ret |-> FALSE]
    ELSE LET k == PyIndex(Len(w.tm.available_target_survivors), target_index)
         IN IF k = 0
            THEN [w |-> [w EXCEPT !.crashed = TRUE], ret |-> FALSE]
            ELSE LET target_survivor == w.tm.available_target_survivors[k]
                     z == w.tm.attacking_zombie
                     g1 == _inflict_wound(w.gs, target_survivor)
                     g2 == [g1 EXCEPT !.zombies[z] = consume_action(@)]
                 IN [w |-> [w EXCEPT !.gs = g2,
                                     !.tm.zombie_index = @ + 1,
                                     !.tm.waiting_for_survivor_selection = FALSE,
                                     !.tm.attacking_zombie = 0,
                                     !.tm.available_target_survivors = <<>>],
                     ret |-> TRUE]

MoveTexts == {"Move UP", "Move DOWN", "Move LEFT", "Move RIGHT"}

MoveTextDirection(text) ==
    CASE text = "Move UP" -> "UP"
      [] text = "Move DOWN" -> "DOWN"
      [] text = "Move LEFT" -> "LEFT"
      [] text = "Move RIGHT" -> "RIGHT"

_execute_selected_action(w, action_text) ==
    IF w.tm.current_survivor = 0 THEN [w |-> w, ret |-> FALSE]
    ELSE LET cs == w.tm.current_survivor
             pos == w.gs.survivors[cs].position
             found == zombies_in_zone(w.gs, pos)
         IN IF action_text \in MoveTexts
            THEN LET d == MoveTextDirection(action_text)
                     r == execute_action(w.gs, MoveAction(SurvivorId(cs), PosAdd(pos, d), d))
                 IN [w |-> [w EXCEPT !.gs = r.gs], ret |-> r.success]
            ELSE IF action_text = "Attack zombie"
            THEN IF found = <<>> THEN [w |-> w, ret |-> FALSE]
                 ELSE LET r == execute_action(w.gs,
                                  AttackAction(SurvivorId(cs), w.gs.zombies[found[1]].position,
                                               ZombieId(found[1])))
                      IN [w |-> [w EXCEPT !.gs = r.gs], ret |-> r.success]
            ELSE IF action_text = "Skip remaining actions"
            THEN [w |-> [w EXCEPT !.gs.survivors[cs].actions_remaining = 0], ret |-> TRUE]
            ELSE [w |-> w, ret |-> FALSE]

select_action(w, action_index) ==
    IF action_index >= Len(w.tm.available_actions)
    THEN [w |-> w, ret |-> FALSE]
    ELSE LET k == PyIndex(Len(w.tm.available_actions), action_index)
         IN IF k = 0
            THEN [w |-> [w EXCEPT !.crashed = TRUE], ret |-> FALSE]
            ELSE LET r == _execute_selected_action(w, w.tm.available_actions[k])
                 IN IF r.ret
                    THEN [w |-> AfterSurvivorAction([r.w EXCEPT !.tm.waiting_for_action = FALSE]),
                          ret |-> TRUE]
                    ELSE r

advance_to_next_phase(w) ==
    IF w.tm.waiting_for_phase_advance
    THEN [w |-> advance_phase([w EXCEPT !.tm.waiting_for_phase_advance = FALSE]), ret |-> TRUE]
    ELSE [w |-> w, ret |-> FALSE]

\* ------------------------------------------------ the record of the calls
\* last is the most recent call of a method made from outside and what it returned;
\* arg and action are the argument of a call that returned True (success)
CallRecord(op, arg, ret) ==
    [op |-> op, arg |-> IF ret THEN arg ELSE "", ret |-> IF ret THEN "true" ELSE "false",
     action |-> NoAction]

VoidCall(op) == [op |-> op, arg |-> "", ret |-> "none", action |-> NoAction]

NoCall == [op |-> "", arg |-> "", ret |-> "none", action |-> NoAction]

IdxStr(i) ==
    CASE i = -1 -> "-1" [] i = 0 -> "0" [] i = 1 -> "1" [] i = 2 -> "2"
      [] i = 3 -> "3" [] OTHER -> "4"

Keys == {"SPACE", "p", "1", "2", "3"}

KeyIndex(key) == CASE key = "1" -> 0 [] key = "2" -> 1 [] key = "3" -> 2

\* TurnManager.handle_event for a KEYDOWN event (SPACE stands for SPACE and RETURN);
\* call is the TurnManager method the handler invoked, NoCall when it invoked none
handle_event(w, key) ==
    IF key = "SPACE"
    THEN IF ~w.tm.waiting_for_action /\ ~w.tm.waiting_for_survivor_selection
            /\ w.tm.phase_complete
         THEN [w |-> advance_phase(w), ret |-> TRUE, call |-> VoidCall("advance_phase")]
         ELSE [w |-> w, ret |-> FALSE, call |-> NoCall]
    ELSE IF key = "p"
    THEN [w |-> [w EXCEPT !.tm.game_paused = ~@], ret |-> TRUE,
          call |-> VoidCall("toggle_pause")]
    ELSE IF w.tm.waiting_for_action /\ w.tm.current_phase = "SURVIVOR_TURN"
    THEN LET r == select_action(w, KeyIndex(key))
         IN [w |-> r.w, ret |-> r.ret,
             call |-> CallRecord("select_action", IdxStr(KeyIndex(key)), r.ret)]
    ELSE IF w.tm.waiting_for_survivor_selection /\ w.tm.current_phase = "ZOMBIE_TURN"
    THEN IF Len(w.tm.available_target_survivors) >= KeyIndex(key) + 1
         THEN LET r == select_survivor_target(w, KeyIndex(key))
              IN [w |-> r.w, ret |-> r.ret,
                  call |-> CallRecord("select_survivor_target", IdxStr(KeyIndex(key)), r.ret)]
         ELSE [w |-> w, ret |-> FALSE, call |-> NoCall]
    ELSE [w |-> w, ret |-> FALSE, call |-> NoCall]

\* ------------------------------------------------- systems/game_loop.py
\* lines 111-114: the guard of the "advance_phase" game action
CanProcessAdvance(w) == ~w.tm.waiting_for_action

\* GameActionProcessor.process_actions on a list of one action
process_actions(w, action_type, index) ==
    IF action_type = "advance_phase"
    THEN IF CanProcessAdvance(w)
         THEN [w |-> advance_phase(w), call |-> VoidCall("advance_phase")]
         ELSE [w |-> w, call |-> NoCall]
    ELSE IF action_type = "toggle_pause"
    THEN [w |-> [w EXCEPT !.tm.game_paused = ~@], call |-> VoidCall("toggle_pause")]
    ELSE IF action_type = "survivor_action"
    THEN IF w.tm.waiting_for_action /\ index >= 0
         THEN LET r == select_action(w, index)
              IN [w |-> r.w, call |-> CallRecord("select_action", IdxStr(index), r.ret)]
         ELSE [w |-> w, call |-> NoCall]
    ELSE IF action_type = "survivor_target_selection"
    THEN IF w.tm.waiting_for_survivor_selection /\ index >= 0
         THEN LET r == select_survivor_target(w, index)
              IN [w |-> r.w,
                  call |-> CallRecord("select_survivor_target", IdxStr(index), r.ret)]
         ELSE [w |-> w, call |-> NoCall]
    ELSE [w |-> w, call |-> NoCall]

\* GameStateSystem.update: TurnManager.update(dt) only moves phase_timer; then the
\* method of the current phase is called, paused or not
update(w) ==
    CASE w.tm.current_phase = "SURVIVOR_TURN" -> process_survivor_turn(w)
      [] w.tm.current_phase = "ZOMBIE_TURN" -> process_zombie_turn(w)
      [] w.tm.current_phase = "ZOMBIE_SPAWN" -> process_zombie_spawn(w)
      [] w.tm.current_phase = "TURN_END" -> process_turn_end(w)

\* ------------------------------------------------------- the state machine
World == [gs |-> gs, tm |-> tm, tom |-> tom, crashed |-> crashed]

\* the directions of the moves: every entity starts in column 2, and the zombies'
\* policy keeps them in it, so the moves along the column are the ones followed
MoveInputs == {"UP", "DOWN"}

TargetIndices == -1..NumSurvivors

ActionIndices == -1..3

\* zhist counts, since the zombie phase was entered, the actions (a move or a wound
\* inflicted) of every zombie and the resets of the zombies' action points
ZeroHist == [acts |-> [j \in 1..ZombieCount |-> 0], resets |-> 0]

RECURSIVE SumWounds(_, _)
SumWounds(g, i) == IF i > Len(g.survivors) THEN 0 ELSE g.survivors[i].wounds + SumWounds(g, i + 1)

ZombiePositions(g) == [j \in 1..Len(g.zombies) |-> g.zombies[j].position]

\* the zombie that acted in a step of the zombie phase, 0 when none did
ActingZombie(pre, post, call) ==
    IF ZombiePositions(post.gs) = ZombiePositions(pre.gs)
       /\ SumWounds(post.gs, 1) = SumWounds(pre.gs, 1)
    THEN 0
    ELSE IF call.op = "select_survivor_target" THEN pre.tm.attacking_zombie
    ELSE post.tm.zombie_index

NextHist(pre, post, call) ==
    IF post.tm.current_phase # pre.tm.current_phase THEN ZeroHist
    ELSE IF pre.tm.current_phase = "ZOMBIE_TURN"
            /\ call.op \in {"process_zombie_turn", "select_survivor_target"}
    THEN LET z == ActingZombie(pre, post, call)
         IN [acts |-> [j \in 1..ZombieCount |->
                          zhist.acts[j] + (IF j = z THEN 1 ELSE 0)],
             resets |-> zhist.resets
                        + (IF call.op = "process_zombie_turn" /\ Len(pre.gs.zombies) > 0
                              /\ ZombieTurnNeedsInit(pre)
                           THEN 1 ELSE 0)]
    ELSE zhist

\* one call from outside: the world after it and the record of the call. Nothing is
\* called after an exception has escaped, the rounds from number mt on are not played
\* and the turn-order cursor is followed up to MaxCursor
Step(w, call, mt) ==
    /\ ~crashed
    /\ tm.turn_number < mt
    /\ w.tom.current_survivor_index <= MaxCursor
    /\ gs' = w.gs
    /\ tm' = w.tm
    /\ tom' = w.tom
    /\ crashed' = w.crashed
    /\ last' = IF call = NoCall THEN last ELSE call
    /\ zhist' = NextHist(World, w, call)

Init ==
    /\ gs = InitialGameState
    /\ tm = NewTurnManager
    /\ tom = NoTurnOrderManager
    /\ crashed = FALSE
    /\ last = NoCall
    /\ zhist = ZeroHist

ProcessSurvivorTurn(mt) ==
    /\ tm.current_phase = "SURVIVOR_TURN"
    /\ Step(update(World), VoidCall("process_survivor_turn"), mt)

ProcessZombieTurn(mt) ==
    /\ tm.current_phase = "ZOMBIE_TURN"
    /\ Step(update(World), VoidCall("process_zombie_turn"), mt)

ProcessZombieSpawn(mt) ==
    /\ tm.current_phase = "ZOMBIE_SPAWN"
    /\ Step(update(World), VoidCall("process_zombie_spawn"), mt)

ProcessTurnEnd(mt) ==
    /\ tm.current_phase = "TURN_END"
    /\ Step(update(World), VoidCall("process_turn_end"), mt)

AdvancePhase(mt) == Step(advance_phase(World), VoidCall("advance_phase"), mt)

AdvanceToNextPhase(mt) ==
    LET r == advance_to_next_phase(World)
    IN Step(r.w, CallRecord("advance_to_next_phase", "", r.ret), mt)

ExecuteMove(mt) ==
    \E d \in MoveInputs :
        LET r == execute_move(World, d)
        IN Step(r.w, CallRecord("execute_move", d, r.ret), mt)

ExecuteAttack(mt) ==
    LET r == execute_attack(World)
    IN Step(r.w, CallRecord("execute_attack", "", r.ret), mt)

ExecuteSkipTurn(mt) ==
    LET r == execute_skip_turn(World)
    IN Step(r.w, CallRecord("execute_skip_turn", "", r.ret), mt)

SelectAction(mt) ==
    \E i \in ActionIndices :
        LET r == select_action(World, i)
        IN Step(r.w, CallRecord("select_action", IdxStr(i), r.ret), mt)

SelectSurvivorTarget(mt) ==
    \E i \in TargetIndices :
        LET r == select_survivor_target(World, i)
        IN Step(r.w, CallRecord("select_survivor_target", IdxStr(i), r.ret), mt)

HandleEvent(mt) ==
    \E key \in Keys :
        LET r == handle_event(World, key)
        IN Step(r.w, r.call, mt)

ProcessActions(mt) ==
    \/ \E a \in {"advance_phase", "toggle_pause"} :
            LET r == process_actions(World, a, -1)
            IN Step(r.w, r.call, mt)
    \/ \E i \in ActionIndices :
            LET r == process_actions(World, "survivor_action", i)
            IN Step(r.w, r.call, mt)
    \/ \E i \in TargetIndices :
            LET r == process_actions(World, "survivor_target_selection", i)
            IN Step(r.w, r.call, mt)

\* every command and tick, over the first rounds
Next ==
    \/ ProcessSurvivorTurn(MaxTurn)
    \/ ProcessZombieTurn(MaxTurn)
    \/ ProcessZombieSpawn(MaxTurn)
    \/ ProcessTurnEnd(MaxTurn)
    \/ AdvancePhase(MaxTurn)
    \/ AdvanceToNextPhase(MaxTurn)
    \/ ExecuteMove(MaxTurn)
    \/ ExecuteAttack(MaxTurn)
    \/ ExecuteSkipTurn(MaxTurn)
    \/ SelectAction(MaxTurn)
    \/ SelectSurvivorTarget(MaxTurn)
    \/ HandleEvent(MaxTurn)
    \/ ProcessActions(MaxTurn)

Spec == Init /\ [][Next]_vars

\* the game over more rounds, with players who never move, attack or skip
NextRounds ==
    \/ ProcessSurvivorTurn(MaxRounds)
    \/ ProcessZombieTurn(MaxRounds)
    \/ ProcessZombieSpawn(MaxRounds)
    \/ ProcessTurnEnd(MaxRounds)
    \/ AdvancePhase(MaxRounds)
    \/ AdvanceToNextPhase(MaxRounds)
    \/ SelectSurvivorTarget(MaxRounds)
    \/ HandleEvent(MaxRounds)
    \/ ProcessActions(MaxRounds)

SpecRounds == Init /\ [][NextRounds]_vars

\* the game over two rounds, with players who attack or skip but never move
NextPlay ==
    \/ ProcessSurvivorTurn(MaxPlayTurn)
    \/ ProcessZombieTurn(MaxPlayTurn)
    \/ ProcessZombieSpawn(MaxPlayTurn)
    \/ ProcessTurnEnd(MaxPlayTurn)
    \/ AdvancePhase(MaxPlayTurn)
    \/ AdvanceToNextPhase(MaxPlayTurn)
    \/ ExecuteAttack(MaxPlayTurn)
    \/ ExecuteSkipTurn(MaxPlayTurn)
    \/ SelectSurvivorTarget(MaxPlayTurn)

SpecPlay == Init /\ [][NextPlay]_vars

\* ------------------------------------ ActionValidator.validate_move called directly
PositionInputs == (-1..MaxCoord) \X (-1..MaxCoord)

GridSizeInputs == 0..MaxGridInput

\* the record of one validate_move call: its three arguments and its result
ValidateMove ==
    \E p \in PositionInputs, d \in DirectionSet, n \in GridSizeInputs :
        /\ last' = [op |-> "validate_move", arg |-> <<p, d, n>>,
                    ret |-> IF validate_move(p, d, n) THEN "true" ELSE "false",
                    action |-> NoAction]
        /\ UNCHANGED <<gs, tm, tom, crashed, zhist>>

NextValidate == ValidateMove

SpecValidate == Init /\ [][NextValidate]_vars

\* --------------------------------------------- Zombie.decide_action called directly
GridPositions == (0..(GridSize - 1)) \X (0..(GridSize - 1))

\* a survivor anywhere on the grid, alive and unhurt or dead
SurvivorInputs ==
    {[NewSurvivor(p) EXCEPT !.alive = a, !.wounds = IF a THEN 0 ELSE DeathWounds] :
        p \in GridPositions, a \in BOOLEAN}

\* a zombie on the grid or one step outside it, alive or dead, with or without its action
ZombieInputs ==
    {[NewZombie(p) EXCEPT !.alive = a, !.actions_remaining = n] :
        p \in PositionInputs, a \in BOOLEAN, n \in 0..ZombieMaxActions}

InitDecide ==
    /\ \E ss \in [1..NumSurvivors -> SurvivorInputs], z \in ZombieInputs :
          gs = [survivors |-> ss,
                zombies |-> [j \in 1..ZombieCount |->
                                IF j = 1 THEN z ELSE NewZombie(ZombieStartPos)]]
    /\ tm = NewTurnManager
    /\ tom = NoTurnOrderManager
    /\ crashed = FALSE
    /\ last = NoCall
    /\ zhist = ZeroHist

\* the record of one decide_action call: the zombie asked and the Action it returned
DecideAction ==
    \E j \in 1..Len(gs.zombies) :
        /\ last' = [op |-> "decide_action", arg |-> IdxStr(j),
                    ret |-> IF Zombie_decide_action(gs, j) = NoAction THEN "none" ELSE "true",
                    action |-> Zombie_decide_action(gs, j)]
        /\ UNCHANGED <<gs, tm, tom, crashed, zhist>>

NextDecide == DecideAction

SpecDecide == InitDecide /\ [][NextDecide]_vars

\* ------------------------------------------- the GameState called directly
\* an id that no entity carries
UnknownId == <<"survivor", 0>>

\* a target_position that is not the actor's position plus the direction
StrayPos == <<GridSize, GridSize - 1>>

EntityIds(g) ==
    {SurvivorId(i) : i \in 1..Len(g.survivors)} \cup {ZombieId(j) : j \in 1..Len(g.zombies)}

\* the Action objects handed to execute_action
ActionInputs(g) ==
    UNION {{MoveAction(a, tp, d) : tp \in {PosAdd(Entity(g, a).position, d), StrayPos}} :
              a \in EntityIds(g), d \in MoveInputs}
    \cup {MoveAction(UnknownId, SurvivorStartPos, "DOWN")}
    \cup {AttackAction(a, Entity(g, t).position, t) :
              a \in EntityIds(g) \cup {UnknownId}, t \in EntityIds(g)}
    \cup {AttackAction(a, NoPos, UnknownId) : a \in EntityIds(g)}

GSExecuteAction ==
    \E a \in ActionInputs(gs) :
        LET r == execute_action(gs, a)
        IN /\ gs' = r.gs
           /\ last' = [op |-> "execute_action", arg |-> "",
                       ret |-> IF r.success THEN "true" ELSE "false",
                       action |-> IF r.success THEN a ELSE NoAction]
           /\ UNCHANGED <<tm, tom, crashed, zhist>>

\* start_entity_turns opens the round: it is called before any entity has acted
GSStartEntityTurns ==
    \E kind \in {"survivor", "zombie"} :
        /\ start_entity_turns(start_entity_turns(gs, "survivor"), "zombie")
             = start_entity_turns(start_entity_turns(InitialGameState, "survivor"), "zombie")
        /\ gs' = start_entity_turns(gs, kind)
        /\ last' = VoidCall("start_entity_turns")
        /\ UNCHANGED <<tm, tom, crashed, zhist>>

NextGS == GSStartEntityTurns \/ GSExecuteAction

SpecGS == Init /\ [][NextGS]_vars

\* ------------------------------------- the TurnOrderManager called directly
\* a new game with a roster of 1..MaxRoster survivors and its TurnOrderManager
InitOrder ==
    /\ \E n \in 1..MaxRoster :
          /\ gs = [survivors |-> [i \in 1..n |-> NewSurvivor(SurvivorStartPos)],
                   zombies |-> <<>>]
          /\ tom = TurnOrderManager(gs)
    /\ tm = [NewTurnManager EXCEPT !.turn_order_manager = TRUE]
    /\ crashed = FALSE
    /\ last = NoCall
    /\ zhist = ZeroHist

\* first_player_index % len(self.survivors) raises ZeroDivisionError on an empty roster
OrderAdvanceTurn ==
    /\ ~crashed
    /\ tom.turn_number < MaxOrderTurn
    /\ IF Len(tom.survivors) = 0
       THEN crashed' = TRUE /\ tom' = tom
       ELSE crashed' = FALSE /\ tom' = advance_turn(tom, gs)
    /\ last' = VoidCall("advance_turn")
    /\ UNCHANGED <<gs, tm, zhist>>

OrderGetNextSurvivor ==
    /\ ~crashed
    /\ tom.current_survivor_index < MaxCursor
    /\ tom' = get_next_survivor(tom)
    /\ last' = VoidCall("get_next_survivor")
    /\ UNCHANGED <<gs, tm, crashed, zhist>>

\* a living survivor is wounded
OrderTakeDamage ==
    \E i \in 1..Len(gs.survivors) :
        /\ ~crashed
        /\ gs.survivors[i].alive
        /\ gs' = _inflict_wound(gs, i)
        /\ last' = VoidCall("take_damage")
        /\ UNCHANGED <<tm, tom, crashed, zhist>>

\* the manager is told of a survivor who died
OrderRemoveDeadSurvivor ==
    \E i \in 1..Len(gs.survivors) :
        /\ ~crashed
        /\ ~gs.survivors[i].alive
        /\ tom' = remove_dead_survivor(tom, gs, i)
        /\ last' = VoidCall("remove_dead_survivor")
        /\ UNCHANGED <<gs, tm, crashed, zhist>>

NextOrder ==
    \/ OrderAdvanceTurn
    \/ OrderGetNextSurvivor
    \/ OrderTakeDamage
    \/ OrderRemoveDeadSurvivor

SpecOrder == InitOrder /\ [][NextOrder]_vars

\* ------------------------------------------------------------ the phase cycle
\* C1: from SURVIVOR_TURN with the game not paused, four consecutive advance_phase()
\* calls pass through ZOMBIE_TURN, ZOMBIE_SPAWN and TURN_END in that order and come
\* back to SURVIVOR_TURN with the round number exactly one higher
C1_FourAdvancesPlayOneRound ==
    (tm.current_phase = "SURVIVOR_TURN" /\ ~tm.game_paused /\ ~crashed) =>
        LET w1 == advance_phase(World)
            w2 == advance_phase(w1)
            w3 == advance_phase(w2)
            w4 == advance_phase(w3)
        IN /\ w1.tm.current_phase = "ZOMBIE_TURN"
           /\ w2.tm.current_phase = "ZOMBIE_SPAWN"
           /\ w3.tm.current_phase = "TURN_END"
           /\ w4.tm.current_phase = "SURVIVOR_TURN"
           /\ w4.tm.turn_number = tm.turn_number + 1

\* C2: between the entry into ZOMBIE_TURN and the advance of the phase every zombie
\* performs at most one action and the zombies' action points are reset once, however
\* many process_zombie_turn ticks are made, those after the phase is complete included
C2_ZombiesActOncePerPhase ==
    tm.current_phase = "ZOMBIE_TURN" =>
        /\ \A j \in 1..ZombieCount : zhist.acts[j] <= 1
        /\ zhist.resets <= 1

\* C3: advance_phase() is refused, the phase and the round number staying as they are,
\* whenever waiting_for_action or waiting_for_survivor_selection is true
C3_AdvanceRefusedWhileWaiting ==
    [][(last'.op = "advance_phase"
        /\ (tm.waiting_for_action \/ tm.waiting_for_survivor_selection))
       => (tm'.current_phase = tm.current_phase /\ tm'.turn_number = tm.turn_number)]_vars

\* ------------------------------------------------- actions on the GameState
\* C4: an execute_action that reports success lowers the actor's actions_remaining by
\* exactly 1 and changes no other entity's actions_remaining
C4_SuccessCostsOneAction ==
    [][(last'.op = "execute_action" /\ last'.ret = "true") =>
          \A e \in EntityIds(gs) :
              Entity(gs', e).actions_remaining =
                  Entity(gs, e).actions_remaining
                  - (IF e = last'.action.actor_id THEN 1 ELSE 0)]_vars

C4_Witness ==
    /\ last.op = "execute_action" /\ last.ret = "true"
    /\ last.action.action_type = "ATTACK"
    /\ last.action.actor_id = SurvivorId(1)
    /\ gs.survivors[1].actions_remaining = 0

\* C5: a failing execute_action (unknown actor, actor that cannot act, move off the
\* grid, unknown target, target in another zone) and an execute_move or execute_attack
\* that returns False change no entity and move no turn-order cursor
C5_FailureChangesNothing ==
    /\ [][(last'.op \in {"execute_move", "execute_attack"} /\ last'.ret = "false")
            => (gs' = gs /\ tom' = tom /\ tm' = tm)]_vars
    /\ [](\A a \in ActionInputs(gs) :
            ~execute_action(gs, a).success => execute_action(gs, a).gs = gs)

C5_Witness ==
    /\ last.op = "execute_move" /\ last.ret = "false"
    /\ tm.current_survivor # 0
    /\ gs.survivors[tm.current_survivor].position[1] = GridSize - 1
    /\ gs.survivors[tm.current_survivor].actions_remaining > 0

\* C6: a survivor's wounds never decrease, alive becomes false exactly in the step in
\* which wounds first reaches 2, and a dead survivor never lives again
C6_WoundsOnlyRiseDeathAtTwo ==
    [][\A i \in 1..NumSurvivors :
          /\ gs'.survivors[i].wounds >= gs.survivors[i].wounds
          /\ (gs.survivors[i].alive /\ ~gs'.survivors[i].alive)
                <=> (gs.survivors[i].wounds < DeathWounds
                     /\ gs'.survivors[i].wounds >= DeathWounds)
          /\ (~gs.survivors[i].alive => ~gs'.survivors[i].alive)]_vars

C6_Witness ==
    \E i \in 1..NumSurvivors :
        /\ ~gs.survivors[i].alive
        /\ gs.survivors[i].wounds = DeathWounds
        /\ last.op \in {"process_zombie_turn", "select_survivor_target"}

\* C7: a successful ATTACK through execute_action on a living zombie leaves that zombie
\* with alive = false
C7_AttackKillsZombie ==
    [][(/\ last'.op = "execute_action" /\ last'.ret = "true"
        /\ last'.action.action_type = "ATTACK"
        /\ last'.action.target_id[1] = "zombie"
        /\ Entity(gs, last'.action.target_id).alive)
       => ~Entity(gs', last'.action.target_id).alive]_vars

C7_Witness ==
    /\ last.op = "execute_action" /\ last.ret = "true"
    /\ last.action.action_type = "ATTACK"
    /\ last.action.actor_id[1] = "survivor"
    /\ last.action.target_id = ZombieId(2)
    /\ ~gs.zombies[2].alive
    /\ gs.zombies[2].actions_remaining = 0
    /\ gs.zombies[2].position # ZombieStartPos

\* ------------------------------------------------- the choice of the zombie's target
\* C8: while waiting_for_survivor_selection is true a process_zombie_turn tick changes
\* nothing: the zombie cursor stays, no zombie moves or attacks, no survivor is wounded
C8_TicksChangeNothingWhileSelecting ==
    [][(tm.waiting_for_survivor_selection /\ last'.op = "process_zombie_turn")
         => (gs' = gs /\ tm'.zombie_index = tm.zombie_index)]_vars

\* the index a recorded argument stands for
StrIdx(s) == CASE s = "0" -> 0 [] s = "1" -> 1 [] s = "2" -> 2 [] s = "3" -> 3 [] OTHER -> -1

\* C9: select_survivor_target(i) with a valid index in the selection sub-state raises
\* the wounds of the i-th candidate by 1 (it dies at 2), changes no other survivor,
\* takes the attacking zombie's action point (1 to 0), moves the zombie cursor on by one
\* and clears the sub-state
C9_SelectionWoundsChosenSurvivor ==
    [][(last'.op = "select_survivor_target" /\ last'.ret = "true" /\ StrIdx(last'.arg) >= 0)
       => LET t == tm.available_target_survivors[StrIdx(last'.arg) + 1]
              z == tm.attacking_zombie
          IN /\ tm.waiting_for_survivor_selection
             /\ gs'.survivors[t] =
                   [gs.survivors[t] EXCEPT
                       !.wounds = @ + 1,
                       !.alive = gs.survivors[t].alive
                                 /\ gs.survivors[t].wounds + 1 < DeathWounds]
             /\ \A u \in 1..NumSurvivors : u # t => gs'.survivors[u] = gs.survivors[u]
             /\ gs.zombies[z].actions_remaining = 1
             /\ gs'.zombies[z].actions_remaining = 0
             /\ tm'.zombie_index = tm.zombie_index + 1
             /\ ~tm'.waiting_for_survivor_selection
             /\ tm'.attacking_zombie = 0
             /\ tm'.available_target_survivors = <<>>]_vars

C9_Witness ==
    /\ last.op = "select_survivor_target" /\ last.ret = "true" /\ last.arg = "1"
    /\ gs.survivors[2].wounds = DeathWounds
    /\ ~gs.survivors[2].alive
    /\ gs.survivors[1].alive

\* C10: whenever waiting_for_survivor_selection is true, available_target_survivors is
\* exactly the list of the living survivors in the zone of attacking_zombie, that zombie
\* is alive with an action point left, and the list has at least two members
C10_SelectionCandidatesAreCurrent ==
    tm.waiting_for_survivor_selection =>
        /\ tm.attacking_zombie # 0
        /\ tm.available_target_survivors
             = survivors_in_zone(gs, gs.zombies[tm.attacking_zombie].position)
        /\ can_act(gs.zombies[tm.attacking_zombie])
        /\ Len(tm.available_target_survivors) >= 2

\* ------------------------------------------------------- refused commands
\* C11: select_action(i) and select_survivor_target(i) with an index outside 0..len-1
\* of the offered list, too large or negative, return False and leave all state as it is
C11_OutOfRangeIndexRefused ==
    /\ \A i \in ActionIndices :
          (i < 0 \/ i >= Len(tm.available_actions))
             => select_action(World, i) = [w |-> World, ret |-> FALSE]
    /\ \A i \in TargetIndices :
          (i < 0 \/ i >= Len(tm.available_target_survivors))
             => select_survivor_target(World, i) = [w |-> World, ret |-> FALSE]

\* C12: select_survivor_target called while waiting_for_survivor_selection is false, in
\* any phase, returns False, changes no state and raises nothing
C12_SelectionOutsideSubStateRefused ==
    [][(last'.op = "select_survivor_target" /\ ~tm.waiting_for_survivor_selection)
         => (last'.ret = "false" /\ gs' = gs /\ tm' = tm /\ tom' = tom /\ ~crashed')]_vars

C12_Witness ==
    /\ last.op = "select_survivor_target" /\ last.ret = "false"
    /\ ~tm.waiting_for_survivor_selection
    /\ tm.current_phase = "ZOMBIE_TURN"
    /\ tm.zombie_index = 1
    /\ ~crashed

\* C13: no sequence of update ticks and commands reaches an unhandled error: every
\* tick and every command completes normally
C13_NoUnhandledError == ~crashed

\* C14: the first process_zombie_spawn tick of the ZOMBIE_SPAWN phase adds exactly one
\* living zombie at (2,2) and sets phase_complete; further ticks add no zombie
C14_SpawnAddsOneZombie ==
    [][(last'.op = "process_zombie_spawn") =>
          IF ~tm.phase_complete
          THEN /\ ~crashed'
               /\ Len(gs'.zombies) = Len(gs.zombies) + 1
               /\ SubSeq(gs'.zombies, 1, Len(gs.zombies)) = gs.zombies
               /\ gs'.zombies[Len(gs'.zombies)].alive
               /\ gs'.zombies[Len(gs'.zombies)].position = ZombieStartPos
               /\ tm'.phase_complete
          ELSE gs'.zombies = gs.zombies]_vars

\* C18: while game_paused is true advance_phase() changes nothing: phase, round
\* number, phase_complete, turn order and every entity stay as they are
C18_AdvanceIgnoredWhilePaused ==
    [][(last'.op = "advance_phase" /\ tm.game_paused)
         => (gs' = gs /\ tm' = tm /\ tom' = tom)]_vars

C18_Witness ==
    /\ last.op = "advance_phase"
    /\ tm.game_paused
    /\ tm.current_phase = "ZOMBIE_TURN"
    /\ tm.phase_complete

\* C20: no update tick changes current_phase or the round number; they change only in
\* a call that runs advance_phase
C20_TicksKeepPhaseAndRound ==
    [][/\ (last'.op \in {"process_survivor_turn", "process_zombie_turn",
                         "process_zombie_spawn", "process_turn_end"})
            => (tm'.current_phase = tm.current_phase /\ tm'.turn_number = tm.turn_number)
       /\ (tm'.current_phase # tm.current_phase \/ tm'.turn_number # tm.turn_number)
            => last'.op \in {"advance_phase", "advance_to_next_phase"}]_vars

C20_Witness ==
    /\ last.op = "process_turn_end"
    /\ tm.current_phase = "TURN_END"
    /\ tm.phase_complete
    /\ tm.turn_number = 1

\* ------------------------------------------------------------ the turn order
RECURSIVE CountAlive(_, _)
CountAlive(g, i) ==
    IF i > Len(g.survivors) THEN 0
    ELSE (IF g.survivors[i].alive THEN 1 ELSE 0) + CountAlive(g, i + 1)

\* C15: after every advance_turn(), if the survivor that was first in the previous
\* current_turn_order is still alive and at least two survivors are alive, that survivor
\* is last in the new current_turn_order, whatever the roster, dead survivors included
C15_FirstPlayerGoesLast ==
    [][(/\ last'.op = "advance_turn" /\ ~crashed'
        /\ tom.current_turn_order # <<>>
        /\ gs.survivors[tom.current_turn_order[1]].alive
        /\ CountAlive(gs, 1) >= 2)
       => (/\ tom'.current_turn_order # <<>>
           /\ tom'.current_turn_order[Len(tom'.current_turn_order)]
                = tom.current_turn_order[1])]_vars

RECURSIVE AdvanceTurns(_, _, _)
AdvanceTurns(t, g, k) == IF k = 0 THEN t ELSE AdvanceTurns(advance_turn(t, g), g, k - 1)

\* C16: for a roster of N >= 1 survivors, N consecutive advance_turn() calls bring
\* first_player_index back to its value and raise the turn number by exactly N
C16_FullRotationCycle ==
    Len(tom.survivors) >= 1 =>
        LET t == AdvanceTurns(tom, gs, Len(tom.survivors))
        IN /\ t.first_player_index = tom.first_player_index
           /\ t.turn_number = tom.turn_number + Len(tom.survivors)

C16_Witness ==
    /\ last.op = "advance_turn"
    /\ Len(tom.survivors) = MaxRoster
    /\ tom.turn_number = 1 + MaxRoster
    /\ tom.first_player_index = 0
    /\ Len(tom.current_turn_order) = 2

InOrder(order, i) == \E k \in 1..Len(order) : order[k] = i

\* C17: when a survivor dies during a round, current_turn_order and its cursor are left as
\* they are for the rest of that round (the order is kept and the cursor is never set
\* back), and from the next advance_turn() on no dead survivor is in current_turn_order
C17_DeathKeepsCurrentOrder ==
    [][(tm.turn_order_manager /\ ~crashed') =>
        /\ (\E i \in 1..Len(gs.survivors) :
                gs.survivors[i].alive /\ ~gs'.survivors[i].alive)
              => (/\ tom'.current_turn_order = tom.current_turn_order
                  /\ tom'.current_survivor_index = tom.current_survivor_index)
        /\ (/\ tom'.turn_number = tom.turn_number
            /\ \E i \in 1..Len(gs.survivors) : ~gs.survivors[i].alive)
              => (/\ tom'.current_turn_order = tom.current_turn_order
                  /\ tom'.current_survivor_index >= tom.current_survivor_index)
        /\ tom'.turn_number # tom.turn_number
              => \A k \in 1..Len(tom'.current_turn_order) :
                    gs'.survivors[tom'.current_turn_order[k]].alive
        /\ \A i \in 1..Len(gs.survivors) :
              (~gs.survivors[i].alive /\ ~InOrder(tom.current_turn_order, i))
                 => ~InOrder(tom'.current_turn_order, i)]_vars

\* ------------------------------------------------------ the survivor phase
\* C19: in SURVIVOR_TURN, waiting_for_phase_advance becomes true only when no living
\* survivor has actions_remaining > 0
C19_PhaseDoneOnlyWhenAllExhausted ==
    [][(/\ tm'.current_phase = "SURVIVOR_TURN"
        /\ ~tm.waiting_for_phase_advance
        /\ tm'.waiting_for_phase_advance)
       => \A i \in 1..Len(gs'.survivors) :
             gs'.survivors[i].alive => gs'.survivors[i].actions_remaining = 0]_vars

\* ------------------------------------------------------------ pure functions
\* C21: for every position p, direction d and grid size N, validate_move(p, d, N) is true
\* iff the translated position p + d satisfies 0 <= row < N and 0 <= col < N
C21_ValidateMoveIffInsideGrid ==
    last.op = "validate_move" =>
        LET p == last.arg[1]
            o == get_offset(last.arg[2])
            n == last.arg[3]
        IN (last.ret = "true") <=> (/\ 0 <= p[1] + o[1] /\ p[1] + o[1] < n
                                    /\ 0 <= p[2] + o[2] /\ p[2] + o[2] < n)

C21_Witness ==
    /\ last.op = "validate_move"
    /\ last.arg = <<(<<1, 2>>), "DOWN", 3>>
    /\ last.ret = "true"

\* ------------------------------------------------------------ dead entities
\* the zombie that process_zombie_turn looks at: the cursor, 0 after a fresh initialisation
ZombieCursorAtTick(w) == IF ZombieTurnNeedsInit(w) THEN 0 ELSE w.tm.zombie_index

\* C22: once an entity is dead it never again moves, attacks or wounds, and its
\* actions_remaining is never reset or consumed; a survivor that becomes the current one
\* is alive, and a tick on a dead zombie at the cursor only moves the cursor on
C22_DeadEntitiesNeverAct ==
    [][~crashed' =>
        /\ \A i \in 1..Len(gs.survivors) :
              ~gs.survivors[i].alive =>
                 /\ ~gs'.survivors[i].alive
                 /\ gs'.survivors[i].position = gs.survivors[i].position
                 /\ gs'.survivors[i].actions_remaining = gs.survivors[i].actions_remaining
        /\ \A j \in 1..Len(gs.zombies) :
              ~gs.zombies[j].alive => gs'.zombies[j] = gs.zombies[j]
        /\ LET z == ActingZombie(World, [gs |-> gs', tm |-> tm', tom |-> tom',
                                         crashed |-> crashed'], last')
           IN (tm.current_phase = "ZOMBIE_TURN"
               /\ last'.op \in {"process_zombie_turn", "select_survivor_target"}
               /\ z # 0) => gs.zombies[z].alive
        /\ (tm'.current_survivor # tm.current_survivor /\ tm'.current_survivor # 0)
              => gs'.survivors[tm'.current_survivor].alive
        /\ (/\ last'.op = "process_zombie_turn"
            /\ tm.current_phase = "ZOMBIE_TURN"
            /\ ~tm.waiting_for_survivor_selection
            /\ ZombieCursorAtTick(World) < Len(gs.zombies)
            /\ ~gs.zombies[ZombieCursorAtTick(World) + 1].alive)
              => /\ tm'.zombie_index = ZombieCursorAtTick(World) + 1
                 /\ ZombiePositions(gs') = ZombiePositions(gs)
                 /\ gs'.survivors = gs.survivors]_vars

\* C23: no successful attack has a dead target (an ATTACK on a target that is already dead
\* fails and changes nothing), and no step raises the wounds of a dead survivor
C23_NoAttackOnDeadTarget ==
    [][/\ (/\ last'.op = "execute_action"
           /\ last'.ret = "true"
           /\ last'.action.action_type = "ATTACK")
          => Entity(gs, last'.action.target_id).alive
       /\ \A i \in 1..Len(gs.survivors) :
             ~gs.survivors[i].alive => gs'.survivors[i].wounds = gs.survivors[i].wounds]_vars

\* ------------------------------------------------------------ action points
\* C24: in every reachable state every entity has 0 <= actions_remaining <= max_actions,
\* 3 for survivors and 1 for zombies
C24_ActionsWithinBounds ==
    /\ \A i \in 1..Len(gs.survivors) :
          /\ gs.survivors[i].max_actions = 3
          /\ 0 <= gs.survivors[i].actions_remaining
          /\ gs.survivors[i].actions_remaining <= gs.survivors[i].max_actions
    /\ \A j \in 1..Len(gs.zombies) :
          /\ gs.zombies[j].max_actions = 1
          /\ 0 <= gs.zombies[j].actions_remaining
          /\ gs.zombies[j].actions_remaining <= gs.zombies[j].max_actions

C24_Witness ==
    /\ \E i \in 1..Len(gs.survivors) : gs.survivors[i].actions_remaining = 3
    /\ \E i \in 1..Len(gs.survivors) :
          gs.survivors[i].alive /\ gs.survivors[i].actions_remaining = 0
    /\ zhist.acts[1] = 1 /\ gs.zombies[1].actions_remaining = 0
    /\ gs.zombies[2].actions_remaining = 1

\* ------------------------------------------------------------ the zombie phase
MovedZombies(g, h) == {j \in 1..Len(g.zombies) : h.zombies[j].position # g.zombies[j].position}

\* C25: each call of process_zombie_turn advances the zombie cursor by at most one and
\* lets at most one zombie act: at most one zombie move or one wound per tick
C25_OneZombiePerTick ==
    [][(last'.op = "process_zombie_turn" /\ ~crashed') =>
        /\ tm'.zombie_index \in {ZombieCursorAtTick(World), ZombieCursorAtTick(World) + 1}
        /\ tm.zombie_turn_initialized # "absent" => tm'.zombie_index <= tm.zombie_index + 1
        /\ SumWounds(gs', 1) >= SumWounds(gs, 1)
        /\ Cardinality(MovedZombies(gs, gs')) + (SumWounds(gs', 1) - SumWounds(gs, 1)) <= 1]_vars

C25_Witness ==
    /\ last.op = "process_zombie_turn"
    /\ tm.zombie_index = 1
    /\ zhist.acts[1] = 1
    /\ gs.zombies[1].position # ZombieStartPos
    /\ gs.zombies[2].position = ZombieStartPos
    /\ gs.zombies[2].actions_remaining = 1

\* C26: in ZOMBIE_TURN, phase_complete is true only when the zombie cursor has reached the
\* end of the zombie list and no target selection is pending; phase_complete and
\* waiting_for_survivor_selection are never both true
C26_ZombiePhaseCompleteAtEnd ==
    /\ (tm.current_phase = "ZOMBIE_TURN" /\ tm.phase_complete)
          => (tm.zombie_index >= Len(gs.zombies) /\ ~tm.waiting_for_survivor_selection)
    /\ ~(tm.phase_complete /\ tm.waiting_for_survivor_selection)

\* the zombie handled by a process_zombie_turn tick taken in w, as the tick finds it
\* after its initialisation; 0 when the tick handles none
HandledZombie(w) ==
    LET w1 == InitZombieTurn(w)
    IN IF Len(w.gs.zombies) > 0 /\ ~w1.tm.waiting_for_survivor_selection
          /\ w1.tm.zombie_index < Len(w1.gs.zombies)
       THEN w1.tm.zombie_index + 1
       ELSE 0

\* C27: when a tick handles a living zombie that has an action point and shares its zone
\* with at most one living survivor, the zombie ends with 0 actions and the cursor has
\* advanced by exactly 1; a single co-located survivor has exactly one more wound and no
\* other survivor changed; with no co-located survivor no survivor changed
C27_ZombieTickOutcome ==
    [][LET j == HandledZombie(World)
           z == InitZombieTurn(World).gs.zombies[j]
           inzone == survivors_in_zone(gs, z.position)
       IN (/\ last'.op = "process_zombie_turn"
           /\ j # 0
           /\ can_act(z)
           /\ Len(inzone) <= 1)
          => /\ ~crashed'
             /\ gs'.zombies[j].actions_remaining = 0
             /\ tm'.zombie_index = j
             /\ \A i \in 1..Len(gs.survivors) :
                   IF inzone = <<i>>
                   THEN /\ gs'.survivors[i].wounds = gs.survivors[i].wounds + 1
                        /\ gs'.survivors[i].position = gs.survivors[i].position
                        /\ gs'.survivors[i].actions_remaining = gs.survivors[i].actions_remaining
                   ELSE gs'.survivors[i] = gs.survivors[i]]_vars

C27_Witness ==
    /\ last.op = "process_zombie_turn"
    /\ tm.zombie_index = 2
    /\ gs.zombies[2].actions_remaining = 0
    /\ gs.zombies[2].position = gs.survivors[1].position
    /\ gs.survivors[1].wounds = 1
    /\ gs.survivors[2].wounds = 0
    /\ gs.survivors[2].position # gs.survivors[1].position
    /\ zhist.acts[2] = 1

\* ------------------------------------------------------------ the zombie policy
LivingSurvivors(g) == {i \in 1..Len(g.survivors) : g.survivors[i].alive}

\* the closest living survivor of position p, the first in list order on ties
ClosestSurvivor(g, p) ==
    CHOOSE i \in LivingSurvivors(g) :
        \A k \in LivingSurvivors(g) :
            \/ distance_to(p, g.survivors[i].position) < distance_to(p, g.survivors[k].position)
            \/ (distance_to(p, g.survivors[i].position) = distance_to(p, g.survivors[k].position)
                /\ i <= k)

\* the places in UP, DOWN, LEFT, RIGHT of the directions that lead from p to a position
\* inside the grid and strictly closer to position q
CloserDirections(p, q) ==
    {k \in 1..Len(Directions) :
        /\ is_valid(PosAdd(p, Directions[k]), GridSize)
        /\ distance_to(PosAdd(p, Directions[k]), q) < distance_to(p, q)}

SetMin(S) == CHOOSE x \in S : \A y \in S : x <= y

ReferencePolicy(g, j) ==
    LET z == g.zombies[j]
        here == {i \in LivingSurvivors(g) : g.survivors[i].position = z.position}
    IN IF ~(z.alive /\ z.actions_remaining > 0) THEN NoAction
       ELSE IF here # {}
       THEN AttackAction(ZombieId(j), z.position, SurvivorId(SetMin(here)))
       ELSE IF LivingSurvivors(g) = {} THEN NoAction
       ELSE LET q == g.survivors[ClosestSurvivor(g, z.position)].position
            IN IF CloserDirections(z.position, q) = {} THEN NoAction
               ELSE LET d == Directions[SetMin(CloserDirections(z.position, q))]
                    IN MoveAction(ZombieId(j), PosAdd(z.position, d), d)

\* C28: Zombie.decide_action equals the reference policy: None if the zombie cannot act;
\* else ATTACK on the first living survivor in its zone; else, for the closest living
\* survivor (first in list order on ties), a MOVE in the first direction of UP, DOWN, LEFT,
\* RIGHT whose destination is inside the grid and strictly closer; else None
C28_DecideActionIsReferencePolicy ==
    /\ \A j \in 1..Len(gs.zombies) : Zombie_decide_action(gs, j) = ReferencePolicy(gs, j)
    /\ last.op = "decide_action" => last.action = ReferencePolicy(gs, StrIdx(last.arg))

C28_Witness ==
    /\ last.op = "decide_action"
    /\ last.arg = "1"
    /\ last.action = MoveAction(ZombieId(1), <<1, 2>>, "UP")
    /\ gs.zombies[1].position = <<2, 2>>
    /\ ~gs.survivors[1].alive /\ gs.survivors[1].position = <<2, 2>>
    /\ gs.survivors[2].alive /\ gs.survivors[2].position = <<1, 1>>

\* ------------------------------------------------------ after a survivor's action
\* the place of survivor s in the order, 0 when it is not in it
PlaceInOrder(order, s) ==
    IF InOrder(order, s) THEN SetMin({k \in 1..Len(order) : order[k] = s}) ELSE 0

\* the places after survivor s in the order whose survivor can act
ActableAfter(g, order, s) ==
    {k \in (PlaceInOrder(order, s) + 1)..Len(order) : can_act(g.survivors[order[k]])}

\* C29: after execute_move, execute_attack or execute_skip_turn returns with the acting
\* survivor unable to act, either current_survivor is the next survivor in the current
\* turn order that can act and waiting_for_action is true, or there is no such survivor
\* and waiting_for_phase_advance is true
C29_NextActableSurvivorFound ==
    [][(/\ last'.op \in {"execute_move", "execute_attack", "execute_skip_turn"}
        /\ last'.ret = "true"
        /\ ~crashed'
        /\ ~can_act(gs'.survivors[tm.current_survivor]))
       => LET after == ActableAfter(gs', tom'.current_turn_order, tm.current_survivor)
          IN IF after # {}
             THEN /\ tm'.current_survivor = tom'.current_turn_order[SetMin(after)]
                  /\ tm'.waiting_for_action
             ELSE tm'.waiting_for_phase_advance]_vars

\* C30: whenever waiting_for_action is true, the offered actions contain the attack entry
\* iff a living zombie shares the current survivor's zone
C30_AttackOfferedIffZombieInZone ==
    (tm.waiting_for_action /\ tm.current_survivor # 0) =>
        ((\E k \in 1..Len(tm.available_actions) : tm.available_actions[k] = "Press 'a' to attack")
            <=> zombies_in_zone(gs, gs.survivors[tm.current_survivor].position) # <<>>)

C32_RemovalKeepsIndexInRoster ==
    [][(last'.op = "remove_dead_survivor" /\ Len(tom'.survivors) > 0)
       => /\ 0 <= tom'.first_player_index
          /\ tom'.first_player_index < Len(tom'.survivors)
          /\ tom'.current_survivor_index <= Len(tom'.current_turn_order)]_vars

C32_Witness ==
    /\ last.op = "remove_dead_survivor"
    /\ Len(gs.survivors) = 3
    /\ tom.survivors = <<1, 2>>
    /\ tom.turn_number = 3
    /\ tom.first_player_index = 0

\* ------------------------------------------------------------ waiting flags
\* C33: each waiting flag is true only in its own phase: waiting_for_action and
\* waiting_for_phase_advance only in SURVIVOR_TURN, waiting_for_survivor_selection only in
\* ZOMBIE_TURN
C33_WaitingFlagsInOwnPhase ==
    /\ tm.waiting_for_action => tm.current_phase = "SURVIVOR_TURN"
    /\ tm.waiting_for_phase_advance => tm.current_phase = "SURVIVOR_TURN"
    /\ tm.waiting_for_survivor_selection => tm.current_phase = "ZOMBIE_TURN"

\* ------------------------------------------------------------ survivor commands
\* C34: whenever execute_move, execute_attack or execute_skip_turn changes a survivor's
\* position or action points or advances the turn-order cursor, the phase is
\* SURVIVOR_TURN, waiting_for_action is true and the affected survivor is the living
\* survivor at the cursor of current_turn_order; the cursor passes over no survivor
\* that can still act
C34_CommandsActOnCursorSurvivor ==
    [][(/\ last'.op \in {"execute_move", "execute_attack", "execute_skip_turn"}
        /\ ~crashed'
        /\ \/ \E i \in 1..Len(gs.survivors) :
                 \/ gs'.survivors[i].position # gs.survivors[i].position
                 \/ gs'.survivors[i].actions_remaining # gs.survivors[i].actions_remaining
           \/ tom'.current_survivor_index # tom.current_survivor_index)
       => /\ tm.current_phase = "SURVIVOR_TURN"
          /\ tm.waiting_for_action
          /\ tm.current_survivor # 0
          /\ tm.current_survivor = get_current_survivor(tom)
          /\ gs.survivors[tm.current_survivor].alive
          /\ \A i \in 1..Len(gs.survivors) :
                i # tm.current_survivor =>
                   /\ gs'.survivors[i].position = gs.survivors[i].position
                   /\ gs'.survivors[i].actions_remaining = gs.survivors[i].actions_remaining
          /\ \A k \in (tom.current_survivor_index + 1)..Min(tom'.current_survivor_index,
                                                            Len(tom.current_turn_order)) :
                ~can_act(gs'.survivors[tom.current_turn_order[k]])]_vars

\* ------------------------------------------------------------ positions
\* C35: in every reachable state every living entity's position lies inside the grid
\* (0 <= row, col < grid_size), for every Action execute_action accepts, also one whose
\* target_position differs from the actor's position plus its direction
C35_LivingEntitiesInsideGrid ==
    /\ \A i \in 1..Len(gs.survivors) :
          gs.survivors[i].alive => is_valid(gs.survivors[i].position, GridSize)
    /\ \A j \in 1..Len(gs.zombies) :
          gs.zombies[j].alive => is_valid(gs.zombies[j].position, GridSize)

\* ------------------------------------------------------------ the zombie phase ends
\* a pending target selection answered with an index of available_target_survivors
AnswerSelection(mt) ==
    /\ tm.waiting_for_survivor_selection
    /\ \E i \in 0..(Len(tm.available_target_survivors) - 1) :
          LET r == select_survivor_target(World, i)
          IN Step(r.w, CallRecord("select_survivor_target", IdxStr(i), r.ret), mt)

\* the first round up to the end of the zombie phase: the ticks of the two phases, the
\* keys, the moves and skips of the survivors, the advance out of the survivor phase
\* and the answers, valid or not, to a target selection
NextZombieLive ==
    \/ ProcessSurvivorTurn(MaxTurn)
    \/ ProcessZombieTurn(MaxTurn)
    \/ AdvanceToNextPhase(MaxTurn)
    \/ HandleEvent(MaxTurn)
    \/ ExecuteMove(MaxTurn)
    \/ ExecuteSkipTurn(MaxTurn)
    \/ SelectSurvivorTarget(MaxTurn)
    \/ AnswerSelection(MaxTurn)

\* the zombie tick can take a step: the condition ENABLED <<ProcessZombieTurn(MaxTurn)>>_vars
\* written out from the guards of Step
ZombieTickEnabled ==
    /\ tm.current_phase = "ZOMBIE_TURN"
    /\ ~crashed
    /\ tm.turn_number < MaxTurn
    /\ LET w == update(World)
       IN /\ w.tom.current_survivor_index <= MaxCursor
          /\ (w # World \/ last # VoidCall("process_zombie_turn"))

\* the game loop calls process_zombie_turn on every frame of the zombie phase (weak
\* fairness of the tick, written with ZombieTickEnabled as its enabling condition), and
\* the player answers a pending selection
SpecZombieLive ==
    /\ Init
    /\ [][NextZombieLive]_vars
    /\ ([]<>(~ZombieTickEnabled) \/ []<><<ProcessZombieTurn(MaxTurn)>>_vars)
    /\ WF_vars(AnswerSelection(MaxTurn))

\* C36: in ZOMBIE_TURN, if process_zombie_turn keeps being ticked and every pending
\* target selection is eventually answered with a valid index, phase_complete
\* eventually becomes true, as long as no command takes the game out of the phase
C36_ZombiePhaseCompletes ==
    (tm.current_phase = "ZOMBIE_TURN")
       ~> (tm.phase_complete \/ tm.current_phase # "ZOMBIE_TURN")

C36_Witness ==
    /\ tm.current_phase = "ZOMBIE_TURN"
    /\ tm.phase_complete
    /\ tm.zombie_index = Len(gs.zombies)
    /\ last.op = "process_zombie_turn"
    /\ zhist.acts = [j \in 1..ZombieCount |-> 1]
    /\ \A i \in 1..Len(gs.survivors) : gs.survivors[i].wounds = 1

\* ------------------------------------------------------------ pause
\* C37: while game_paused is true, no update tick and no command other than the pause
\* toggle changes an entity's position, wounds, alive flag or actions_remaining, nor the
\* zombie cursor or the turn-order cursor
C37_PauseFreezesGame ==
    [][(tm.game_paused /\ last'.op # "toggle_pause")
       => /\ \A i \in 1..Len(gs.survivors) :
                /\ gs'.survivors[i].position = gs.survivors[i].position
                /\ gs'.survivors[i].wounds = gs.survivors[i].wounds
                /\ gs'.survivors[i].alive = gs.survivors[i].alive
                /\ gs'.survivors[i].actions_remaining = gs.survivors[i].actions_remaining
          /\ \A j \in 1..Len(gs.zombies) :
                /\ gs'.zombies[j].position = gs.zombies[j].position
                /\ gs'.zombies[j].alive = gs.zombies[j].alive
                /\ gs'.zombies[j].actions_remaining = gs.zombies[j].actions_remaining
          /\ tm'.zombie_index = tm.zombie_index
          /\ tom'.current_survivor_index = tom.current_survivor_index]_vars

\* ------------------------------------------------------------ the cursor's range
\* C38: under any sequence of TurnManager commands and ticks, current_survivor_index
\* never exceeds len(current_turn_order), so the survivors_remaining of get_turn_info()
\* is never negative
C38_CursorWithinTurnOrder ==
    tm.turn_order_manager =>
        /\ tom.current_survivor_index <= Len(tom.current_turn_order)
        /\ Len(tom.current_turn_order) - tom.current_survivor_index >= 0

====
